---- MODULE Spec2Model ----
(***************************************************************************)
(* Model of the Maytronics Dolphin cloud connectivity core:                *)
(*   - MaytronicsCloud (src/lib/MaytronicsCloud.ts): the MQTT session,     *)
(*     its transport handle `client` and its `_connected` flag;            *)
(*   - DolphinDevice (src/unnamed/part_000, second file): the supervisor   *)
(*     with its three timers and its asynchronous connect sequences.       *)
(* The MQTT transports, the REST authenticator and the host platform are   *)
(* the environment: their events and replies are chosen nondeterministi-   *)
(* cally.  Every `await` on real I/O is an interleaving point; code that   *)
(* runs synchronously (or only across microtasks) is one atomic action.    *)
(***************************************************************************)
EXTENDS Integers, FiniteSets, Sequences, TLC

\* ---------------------------------------------------------------- bounds
MaxTasks == 2        \* asynchronous operations of the supervisor in flight at once
MaxTransports == 2   \* transports that exist at once (a dead one is forgotten)
MaxFragments == 2    \* fragments present in one reported state
MaxFilterMargin == 3 \* filter values reach this far below 0 and above 102

Tasks == 1..MaxTasks
Transports == 1..MaxTransports

TimerKinds == {"credentialRefresh", "stateRefresh", "reconnect"}

VARIABLES
  client,        \* MaytronicsCloud.client: 0 = null, else a transport id
  connected,     \* MaytronicsCloud._connected
  transports,    \* the transports mqtt.connect has created, with their listeners
  tasks,         \* the supervisor's asynchronous operations and where they are
  timers,        \* the three timer fields of DolphinDevice
  available,     \* what the device was last marked: "unset", "available" or
                 \* "unavailable"
  settingsOk,    \* email, password and motorUnitSerial are all present
  inited,        \* onInit has run
  tornDown,      \* an onDeleted / onUninit has completed
  lateClose,     \* a forgotten transport's 'close' event is still to come
  robotFamily,   \* getStore().robotFamily: "M700" or another family
  previousStatus,   \* DolphinDevice.previousStatus
  currentLedState,  \* DolphinDevice.currentLedState
  capabilities,     \* the device's capability values (setCapabilityValue)
  args,          \* a call of a pure function: its name and its arguments
  result,        \* what that call returned
  last           \* what the handler that ran last has emitted, logged or ended

vars == <<client, connected, transports, tasks, timers, available, settingsOk,
          inited, tornDown, lateClose, robotFamily, last,
          previousStatus, currentLedState, capabilities, args, result>>

\* what the session and the connect sequences never touch
deviceVars == <<previousStatus, currentLedState, capabilities, args, result>>

\* what the state interpreter and the pure functions never touch
sessionVars == <<client, connected, transports, tasks, timers, available,
                 settingsOk, inited, tornDown, lateClose, robotFamily>>

\* ------------------------------------------------------------- transports
NoTransport ==
  [net |-> "none", ended |-> FALSE, onConnect |-> FALSE, onFirstError |-> FALSE,
   connectTimeout |-> FALSE, sub |-> 0]

\* A transport is open from mqtt.connect until end() is called on it.
IsOpen(tr, t) == tr[t].net # "none" /\ ~tr[t].ended

OpenTransports == {t \in Transports : IsOpen(transports, t)}

Created == {t \in Transports : transports[t].net # "none"}

FreeTransport ==
  IF Created = Transports THEN 0
  ELSE CHOOSE t \in Transports \ Created : \A u \in Transports \ Created : t <= u

\* The stream of transport t goes down (it closes, fails or is destroyed):
\* t delivers no 'connect' or 'error' event any more, so its once-listeners
\* are dead, and the subscriptions still outstanding on t are called back
\* with an error (SubscribeFlushed tells whether there was one).
Down(tr, t) ==
  [u \in Transports |->
     IF u = t
       THEN [tr[u] EXCEPT !.net = "down", !.onConnect = FALSE,
                          !.onFirstError = FALSE,
                          !.sub = IF @ = t THEN 0 ELSE @]
       ELSE [tr[u] EXCEPT !.sub = IF @ = t THEN 0 ELSE @]]

SubscribeFlushed(tr, t) == \E u \in Transports : tr[u].sub = t

\* client.end(true, ...): the transport is closed forcefully; the 'close'
\* event of a stream that was not down yet follows later ("closing")
End(tr, t) ==
  [Down(tr, t) EXCEPT ![t].ended = TRUE,
                      ![t].net = IF tr[t].net \in {"connecting", "up", "closing"}
                                   THEN "closing" ELSE "down"]

\* mqtt.connect(url, ...) plus the listeners connect() registers on it
MqttConnect(tr, t) ==
  [tr EXCEPT ![t] = [net |-> "connecting", ended |-> FALSE, onConnect |-> TRUE,
                     onFirstError |-> TRUE, connectTimeout |-> TRUE, sub |-> 0]]

\* ----------------------------------------------------------------- timers
\* live: the handle in the field is armed (a handle that has fired or was
\* cleared behaves like no handle: clearTimeout on it does nothing);
\* orphans: armed handles the field no longer holds
NoTimer == [live |-> FALSE, orphans |-> 0]

\* armed instances of one timer kind
Armed(tm, k) == tm[k].orphans + (IF tm[k].live THEN 1 ELSE 0)

\* a faulty scheduler: arms a new timer without clearing the old handle
ScheduleWithoutClear(tm, k) ==
  [tm EXCEPT ![k] = [live |-> TRUE,
                     orphans |-> @.orphans + (IF @.live THEN 1 ELSE 0)]]

\* if (this.xTimer) clearTimeout(this.xTimer); this.xTimer = setTimeout(...)
Schedule(tm, k) ==
  [tm EXCEPT ![k] = [live |-> TRUE, orphans |-> @.orphans]]

scheduleCredentialRefresh(tm) == Schedule(tm, "credentialRefresh")

scheduleStateRefresh(tm) == Schedule(tm, "stateRefresh")

scheduleReconnect(tm) == Schedule(tm, "reconnect")

clearTimers(tm) ==
  [k \in TimerKinds |-> [live |-> FALSE, orphans |-> tm[k].orphans]]

\* one armed instance of kind k fires: the one the field holds, or an orphan
Fired(tm, k, isField) ==
  IF isField THEN [tm EXCEPT ![k].live = FALSE]
  ELSE [tm EXCEPT ![k].orphans = @ - 1]

CanFire(tm, k, isField) ==
  IF isField THEN tm[k].live ELSE tm[k].orphans > 0

\* ------------------------------------------------------------------ tasks
\* An asynchronous operation of the supervisor that is waiting at an await:
\*   kind: "connectToCloud" (called by onInit, the reconnect timer or
\*         onSettings), "refreshCredentials" (called by the credential-refresh
\*         timer), "onSettings", "teardown" (onDeleted / onUninit)
\*   pc:   the await it is waiting at;  tr: the transport its connect() made
\*   creds: the credentials it fetched and has not passed to mqtt.connect
\*         yet: "none", "fresh" (no mqtt.connect since the fetch) or "old"
NoTask == [kind |-> "none", pc |-> "idle", tr |-> 0, creds |-> "none"]

InFlight == {t \in Tasks : tasks[t].kind # "none"}

FreeTask ==
  IF InFlight = Tasks THEN 0
  ELSE CHOOSE t \in Tasks \ InFlight : \A u \in Tasks \ InFlight : t <= u

\* the task whose connect() promise for transport t is still pending, or 0
Awaiting(tk, t) ==
  IF \E k \in Tasks : tk[k].pc = "conn_wait" /\ tk[k].tr = t
    THEN CHOOSE k \in Tasks : tk[k].pc = "conn_wait" /\ tk[k].tr = t
    ELSE 0

\* ------------------------------------------- supervisor: connect sequences
\* The supervisor state a handler can change, as one record; `out` collects
\* what the handler emits, logs and ends.
Sup == [tasks |-> tasks, timers |-> timers, available |-> available, out |-> {}]

SetSup(s) ==
  /\ tasks' = s.tasks
  /\ timers' = s.timers
  /\ available' = s.available
  /\ last' = s.out

\* A transport that was ended, whose 30 s timer is gone and whose onConnect
\* awaits no subscription can only deliver its 'close' event any more: it is
\* forgotten (lateClose remembers a 'close' event still to come), and a
\* connect() promise that waited for it (tr = 0 from now on) never settles.
Dead(tr, t) == tr[t].ended /\ ~tr[t].connectTimeout /\ tr[t].sub = 0

Collect(tr) == [t \in Transports |-> IF Dead(tr, t) THEN NoTransport ELSE tr[t]]

Hang(tk, tr) ==
  [k \in Tasks |->
     IF tk[k].pc = "conn_wait" /\ tk[k].tr # 0 /\ Dead(tr, tk[k].tr)
       THEN [tk[k] EXCEPT !.tr = 0]
       ELSE tk[k]]

\* the new transports and supervisor state of an action
CommitFrom(tr, s, late) ==
  /\ transports' = Collect(tr)
  /\ lateClose' = (late \/ \E t \in Transports : Dead(tr, t) /\ tr[t].net = "closing")
  /\ SetSup([s EXCEPT !.tasks = Hang(@, tr)])

Commit(tr, s) == CommitFrom(tr, s, lateClose)

Out(s, what) == [s EXCEPT !.out = @ \cup {what}]

Emit(s, event) == Out(s, <<"emit", event>>)

CanPublishHandleOnly == client # 0

\* the guard of every publisher of MaytronicsCloud
CanPublish == client # 0 /\ connected

\* MaytronicsCloud.requestState, called where handle and flag do not change
requestState(s) == IF CanPublish THEN Out(s, <<"publish", "state">>) ELSE s

\* MaytronicsCloud.sendCommand: the shadow update is published, or (handle
\* missing or flag false) an `error` is emitted and the command is dropped
sendCommand(s) ==
  IF CanPublish THEN Out(s, <<"publish", "update">>) ELSE Emit(s, "error")

\* MaytronicsCloud.sendDynamic
sendDynamic(s, what) == IF CanPublish THEN Out(s, <<"publish", what>>) ELSE s

\* MaytronicsCloud.requestTemperature
requestTemperature(s) == sendDynamic(s, "temperature")

\* MaytronicsCloud.sendJoystick (speed 0 for 'stop', else 100)
sendJoystick(s, direction) ==
  sendDynamic(s, IF direction = "stop" THEN "joystick speed 0" ELSE "joystick speed 100")

\* MaytronicsCloud.exitJoystickMode
exitJoystickMode(s) == sendDynamic(s, "joystick exit")

\* DolphinDevice.requestTemperatureIfSupported
requestTemperatureIfSupported(s) ==
  IF robotFamily = "M700" THEN requestTemperature(s) ELSE s

\* this.setAvailable() / this.setUnavailable(message)
setAvailable(s) == [s EXCEPT !.available = "available"]

setUnavailable(s, message) ==
  Out([s EXCEPT !.available = "unavailable"], <<"setUnavailable", message>>)

\* connectToCloud, catch block up to `await this.setUnavailable(message)`
connectToCloudCatch(s, t, cause) ==
  setUnavailable([s EXCEPT !.tasks[t].pc = "catch_wait", !.tasks[t].tr = 0], cause)

\* a faulty catch block: returns without arming the reconnect timer
connectToCloudCatchEndWithoutReconnect(s, t) ==
  [s EXCEPT !.tasks[t] = NoTask,
            !.out = @ \cup {<<"return", "connectToCloud failed">>}]

\* connectToCloud, catch block after the await: scheduleReconnect, return
connectToCloudCatchEnd(s, t) ==
  [s EXCEPT !.timers = scheduleReconnect(@),
            !.tasks[t] = NoTask,
            !.out = @ \cup {<<"return", "connectToCloud failed">>}]

\* connectToCloud from its first line to `await this.api.login(...)`
connectToCloud(s, t, complete) ==
  LET s1 == [s EXCEPT !.tasks[t] = [NoTask EXCEPT !.kind = "connectToCloud",
                                                  !.pc = "login"]]
  IN IF complete THEN s1 ELSE connectToCloudCatch(s1, t, "Missing settings")

\* connectToCloud after `await this.cloud.connect(...)` has resolved
connectToCloudResume(s, t) ==
  [requestTemperatureIfSupported(s) EXCEPT !.timers = scheduleStateRefresh(scheduleCredentialRefresh(@)),
            !.tasks[t] = NoTask,
            !.out = @ \cup {<<"return", "connectToCloud connected">>}]

\* the credential-refresh callback after refreshCredentials() has resolved
credentialRefreshResume(s, t) ==
  [requestState(s) EXCEPT !.timers = scheduleCredentialRefresh(@),
            !.tasks[t] = NoTask,
            !.out = @ \cup {<<"return", "credentials refreshed">>}]

\* a faulty catch block: retries by re-arming the credential-refresh timer
credentialRefreshCatchRearms(s, t, cause) ==
  [s EXCEPT !.timers = scheduleCredentialRefresh(@),
            !.tasks[t] = NoTask,
            !.out = @ \cup {<<"return", "credential refresh failed">>}]

\* the credential-refresh callback's catch block
credentialRefreshCatch(s, t, cause) ==
  [s EXCEPT !.timers = scheduleReconnect(@),
            !.tasks[t] = NoTask,
            !.out = @ \cup {<<"return", "credential refresh failed">>}]

\* the awaiting caller continues when its promise resolves / rejects
Resolved(s, t) ==
  IF s.tasks[t].kind = "connectToCloud" THEN connectToCloudResume(s, t)
  ELSE credentialRefreshResume(s, t)

Rejected(s, t, cause) ==
  IF s.tasks[t].kind = "connectToCloud" THEN connectToCloudCatch(s, t, cause)
  ELSE credentialRefreshCatch(s, t, cause)

\* ------------------------------------------------------ state interpreter
\* a faulty calculateState: the hold rules are tried before the error rule
calculateStateHoldFirst(pwsState, robotState) ==
  IF pwsState = "holdDelay" THEN "holddelay"
  ELSE IF pwsState = "holdWeekly" THEN "holdweekly"
  ELSE IF pwsState = "error" \/ robotState = "fault" THEN "error"
  ELSE IF pwsState = "programming" /\ robotState = "programming" THEN "programming"
  ELSE IF pwsState = "on" /\ robotState = "init" THEN "init"
  ELSE IF \/ pwsState = "programming" /\ robotState # "finished"
          \/ /\ pwsState = "on"
             /\ robotState # "notConnected"
             /\ robotState # "finished"
    THEN "cleaning"
  ELSE "off"

\* calculateState(pwsState, robotState): the enum members are their strings
calculateState(pwsState, robotState) ==
  IF pwsState = "error" \/ robotState = "fault" THEN "error"
  ELSE IF pwsState = "programming" /\ robotState = "programming" THEN "programming"
  ELSE IF pwsState = "holdDelay" THEN "holddelay"
  ELSE IF pwsState = "holdWeekly" THEN "holdweekly"
  ELSE IF pwsState = "on" /\ robotState = "init" THEN "init"
  ELSE IF \/ pwsState = "programming" /\ robotState # "finished"
          \/ /\ pwsState = "on"
             /\ robotState # "notConnected"
             /\ robotState # "finished"
    THEN "cleaning"
  ELSE "off"

\* a faulty getFilterBagStatus: the upper bounds of the bands are exclusive
getFilterBagStatusExclusiveBands(value) ==
  IF value < 0 THEN "unknown"
  ELSE IF value = 0 THEN "empty"
  ELSE IF value < 25 THEN "partially_full"
  ELSE IF value < 74 THEN "getting_full"
  ELSE IF value < 99 THEN "almost_full"
  ELSE IF value = 100 THEN "full"
  ELSE IF value = 101 THEN "fault"
  ELSE IF value = 102 THEN "not_available"
  ELSE "unknown"

\* getFilterBagStatus(value)
getFilterBagStatus(value) ==
  IF value < 0 THEN "unknown"
  ELSE IF value = 0 THEN "empty"
  ELSE IF value <= 25 THEN "partially_full"
  ELSE IF value <= 74 THEN "getting_full"
  ELSE IF value <= 99 THEN "almost_full"
  ELSE IF value = 100 THEN "full"
  ELSE IF value = 101 THEN "fault"
  ELSE IF value = 102 THEN "not_available"
  ELSE "unknown"

\* LED_MODES[ledMode] || 'blinking'
LED_MODES(ledMode) ==
  CASE ledMode = 1 -> "blinking"
    [] ledMode = 2 -> "always_on"
    [] ledMode = 3 -> "disco"
    [] OTHER -> "blinking"

\* a capability value: not set yet, or the value last set
Val(x) == [has |-> TRUE, v |-> x]

\* a capability that was never set
Unset(x) == [has |-> FALSE, v |-> x]

NoCapabilities ==
  [onoff |-> Unset(FALSE), robot_status |-> Unset(""), cycle_count |-> Unset(0),
   cleaning_mode |-> Unset(""), cycle_time_remaining |-> Unset(0),
   filter_status |-> Unset(0), wifi_signal |-> Unset(0),
   network_name |-> Unset(""), robot_error |-> Unset(""),
   led_mode |-> Unset(""), dim |-> Unset(0)]

\* the fragments of a reported state; present = FALSE is an absent fragment
SystemStates ==
  {[present |-> FALSE, pwsState |-> "", robotState |-> "", hasCount |-> FALSE,
    rTurnOnCount |-> 0]}
  \cup {[present |-> TRUE, pwsState |-> x[1], robotState |-> x[2],
         hasCount |-> FALSE, rTurnOnCount |-> 0] :
          x \in {<<"on", "init">>, <<"off", "finished">>}}
  \cup {[present |-> TRUE, pwsState |-> "on", robotState |-> "scanning",
         hasCount |-> TRUE, rTurnOnCount |-> 5]}

CycleInfos ==
  { [present |-> FALSE, mode |-> "", cycleTime |-> 0, cycleStartTimeUTC |-> 0],
    [present |-> TRUE, mode |-> "all", cycleTime |-> 0, cycleStartTimeUTC |-> 0],
    [present |-> TRUE, mode |-> "pickup", cycleTime |-> 60, cycleStartTimeUTC |-> 1] }

FilterBagIndications ==
  {[present |-> FALSE, state |-> 0]}
  \cup {[present |-> TRUE, state |-> v] : v \in {50, 100, 101}}

Leds ==
  { [present |-> FALSE, ledMode |-> 0, ledIntensity |-> 0, ledEnable |-> FALSE],
    [present |-> TRUE, ledMode |-> 2, ledIntensity |-> 50, ledEnable |-> FALSE] }

RobotErrors ==
  {[present |-> FALSE, errorCode |-> 0]} \cup {[present |-> TRUE, errorCode |-> c] : c \in {0, 3}}

\* network diagnostics: state.debug (WIFI_RSSI, WIFI_NETName) and state.wifi
Debugs ==
  { [present |-> FALSE, WIFI_RSSI |-> 0, WIFI_NETName |-> ""],
    [present |-> TRUE, WIFI_RSSI |-> -60, WIFI_NETName |-> "home"]}

Wifis == {[present |-> FALSE, netName |-> ""], [present |-> TRUE, netName |-> "guest"]}

FragmentNames ==
  {"systemState", "cycleInfo", "filterBagIndication", "led", "robotError", "debug", "wifi"}

\* the reported states of the model: at most MaxFragments fragments present
ReportedStates ==
  {state \in [systemState : SystemStates, cycleInfo : CycleInfos,
              filterBagIndication : FilterBagIndications, led : Leds,
              robotError : RobotErrors, debug : Debugs, wifi : Wifis] :
     Cardinality({f \in FragmentNames : state[f].present}) <= MaxFragments}

\* DolphinDevice.handleStatusChange: the flow triggers it fires
handleStatusChange(previous, current) ==
  (IF current = "cleaning" /\ previous # "cleaning" THEN {"cleaning_started"} ELSE {})
  \cup (IF previous = "cleaning" /\ current # "cleaning" THEN {"cleaning_finished"} ELSE {})

\* a faulty systemState block: does not record the status it derived
onSystemStateForgetsStatus(d, state) ==
  IF ~state.systemState.present THEN d
  ELSE LET calculatedStatus == calculateState(state.systemState.pwsState,
                                              state.systemState.robotState)
           c1 == [d.capabilities EXCEPT
                    !.onoff = Val(calculatedStatus \in {"cleaning", "init"}),
                    !.robot_status = Val(calculatedStatus)]
           c2 == IF state.systemState.hasCount
                   THEN [c1 EXCEPT !.cycle_count = Val(state.systemState.rTurnOnCount)]
                   ELSE c1
       IN [d EXCEPT !.capabilities = c2,
                    !.triggers = IF d.previousStatus # calculatedStatus
                                   THEN @ \cup handleStatusChange(d.previousStatus,
                                                                  calculatedStatus)
                                   ELSE @,
                    !.calculatedStatus = calculatedStatus]

\* the systemState block of onStateUpdate
onSystemState(d, state) ==
  IF ~state.systemState.present THEN d
  ELSE LET calculatedStatus == calculateState(state.systemState.pwsState,
                                              state.systemState.robotState)
           c1 == [d.capabilities EXCEPT
                    !.onoff = Val(calculatedStatus \in {"cleaning", "init"}),
                    !.robot_status = Val(calculatedStatus)]
           c2 == IF state.systemState.hasCount
                   THEN [c1 EXCEPT !.cycle_count = Val(state.systemState.rTurnOnCount)]
                   ELSE c1
       IN [d EXCEPT !.capabilities = c2,
                    !.triggers = IF d.previousStatus # calculatedStatus
                                   THEN @ \cup handleStatusChange(d.previousStatus,
                                                                  calculatedStatus)
                                   ELSE @,
                    !.previousStatus = calculatedStatus,
                    !.calculatedStatus = calculatedStatus]


\* the cycleInfo block: cleaning mode and cycle time remaining
onCycleInfo(d, state, elapsedMinutes) ==
  IF ~state.cycleInfo.present THEN d
  ELSE LET ci == state.cycleInfo
           c1 == IF ci.mode # "pickup"
                   THEN [d.capabilities EXCEPT !.cleaning_mode = Val(ci.mode)]
                   ELSE d.capabilities
           c2 == IF ci.cycleTime # 0 /\ ci.cycleStartTimeUTC # 0
                   THEN [c1 EXCEPT !.cycle_time_remaining =
                                      Val(IF ci.cycleTime - elapsedMinutes >= 0
                                            THEN ci.cycleTime - elapsedMinutes
                                            ELSE 0)]
                   ELSE IF d.calculatedStatus = "off"
                     THEN [c1 EXCEPT !.cycle_time_remaining = Val(0)]
                     ELSE c1
       IN [d EXCEPT !.capabilities = c2]

\* a faulty filter block: fires the trigger on the rising edge only
onFilterBagIndicationEdge(d, state) ==
  IF ~state.filterBagIndication.present THEN d
  ELSE LET filterValue == state.filterBagIndication.state
       IN IF filterValue >= 0 /\ filterValue <= 100
            THEN [d EXCEPT !.capabilities.filter_status = Val(filterValue),
                           !.triggers = IF /\ filterValue >= 100
                                           /\ d.capabilities.filter_status # Val(100)
                                          THEN @ \cup {"filter_bag_full"}
                                          ELSE @]
            ELSE d

\* the filterBagIndication block
onFilterBagIndication(d, state) ==
  IF ~state.filterBagIndication.present THEN d
  ELSE LET filterValue == state.filterBagIndication.state
       IN IF filterValue >= 0 /\ filterValue <= 100
            THEN [d EXCEPT !.capabilities.filter_status = Val(filterValue),
                           !.triggers = IF filterValue >= 100
                                          THEN @ \cup {"filter_bag_full"}
                                          ELSE @]
            ELSE d

\* the WiFi block: state.debug?.WIFI_RSSI, then
\* state.debug?.WIFI_NETName || state.wifi?.netName
onNetwork(d, state) ==
  LET c1 == IF state.debug.present
              THEN [d.capabilities EXCEPT !.wifi_signal = Val(state.debug.WIFI_RSSI)]
              ELSE d.capabilities
      netName == IF state.debug.present /\ state.debug.WIFI_NETName # ""
                   THEN state.debug.WIFI_NETName
                   ELSE IF state.wifi.present THEN state.wifi.netName ELSE ""
  IN [d EXCEPT !.capabilities =
                  IF netName # "" THEN [c1 EXCEPT !.network_name = Val(netName)] ELSE c1]

\* the robotError block
onRobotError(d, state) ==
  IF ~state.robotError.present THEN d
  ELSE LET errorCode == state.robotError.errorCode
       IN [d EXCEPT !.capabilities.robot_error =
                       Val(IF errorCode > 0 THEN "Error" ELSE "None"),
                    !.triggers = IF errorCode > 0
                                   THEN @ \cup {"robot_error_occurred"} ELSE @]

\* a faulty led block: without a led fragment it falls back to the default mode
onLedDefaultsWhenAbsent(d, state) ==
  IF ~state.led.present
    THEN [d EXCEPT !.capabilities.led_mode = Val("blinking")]
    ELSE [d EXCEPT !.currentLedState = [ledMode |-> state.led.ledMode,
                                        ledIntensity |-> state.led.ledIntensity,
                                        ledEnable |-> state.led.ledEnable],
                   !.capabilities.led_mode = Val(LED_MODES(state.led.ledMode)),
                   !.capabilities.dim = Val(state.led.ledIntensity)]

\* the LED block
onLed(d, state) ==
  IF ~state.led.present THEN d
  ELSE [d EXCEPT !.currentLedState = [ledMode |-> state.led.ledMode,
                                      ledIntensity |-> state.led.ledIntensity,
                                      ledEnable |-> state.led.ledEnable],
                 !.capabilities.led_mode = Val(LED_MODES(state.led.ledMode)),
                 !.capabilities.dim = Val(state.led.ledIntensity)]

\* a faulty onStateUpdate: onoff is on only while the status is cleaning
onStateUpdateOnOnlyWhenCleaning(state, elapsedMinutes) ==
  LET d0 == [previousStatus |-> previousStatus, currentLedState |-> currentLedState,
             capabilities |-> capabilities, triggers |-> {},
             calculatedStatus |-> "undefined"]
      d == onLed(onRobotError(onNetwork(onFilterBagIndication(
             onCycleInfo(onSystemState(d0, state), state, elapsedMinutes), state),
             state), state), state)
  IN IF state.systemState.present
       THEN [d EXCEPT !.capabilities.onoff = Val(d.calculatedStatus = "cleaning")]
       ELSE d

\* DolphinDevice.onStateUpdate, block after block; dim is kept in percent
onStateUpdate(state, elapsedMinutes) ==
  LET d0 == [previousStatus |-> previousStatus, currentLedState |-> currentLedState,
             capabilities |-> capabilities, triggers |-> {},
             calculatedStatus |-> "undefined"]
  IN onLed(onRobotError(onNetwork(onFilterBagIndication(
       onCycleInfo(onSystemState(d0, state), state, elapsedMinutes), state),
       state), state), state)

\* the `stateUpdate` notification reaches the device
OnStateUpdate(state, elapsedMinutes) ==
  /\ inited
  /\ LET d == onStateUpdate(state, elapsedMinutes)
     IN /\ previousStatus' = d.previousStatus
        /\ currentLedState' = d.currentLedState
        /\ capabilities' = d.capabilities
        /\ last' = {<<"trigger", x>> : x \in d.triggers}
                     \cup {<<"call", "onStateUpdate", state>>}
  /\ UNCHANGED <<client, connected, transports, tasks, timers, available,
                 settingsOk, inited, tornDown, lateClose, robotFamily, args, result>>

\* ----------------------------------------------------------------- signer
\* Text is a sequence of symbols: [ch |-> c] is a piece of literal text (the
\* separators of a URL are symbols of their own), [hex |-> d] the hex form
\* of the digest d.
Ch(c) == [ch |-> c]

Text(s) == [i \in 1..Len(s) |-> Ch(s[i])]

\* Array.prototype.join
RECURSIVE Join(_, _)
Join(parts, sep) ==
  IF parts = <<>> THEN <<>>
  ELSE IF Len(parts) = 1 THEN parts[1]
  ELSE parts[1] \o sep \o Join(Tail(parts), sep)

PercentEncoded(c) ==
  CASE c = "/" -> "%2F"
    [] c = "&" -> "%26"
    [] c = "=" -> "%3D"
    [] c = "+" -> "%2B"
    [] c = ":" -> "%3A"
    [] c = "?" -> "%3F"
    [] OTHER -> c

encodeURIComponent(text) ==
  [i \in 1..Len(text) |->
     IF text[i] \in {Ch(c) : c \in {"/", "&", "=", "+", ":", "?"}}
       THEN Ch(PercentEncoded(text[i].ch))
       ELSE text[i]]

\* crypto.createHash('sha256').update(data).digest('hex'): a digest is
\* determined by what was hashed, and only by that
sha256(data) == <<[hex |-> <<"sha256", data>>]>>

\* crypto.createHmac('sha256', key).update(data).digest()
hmac(key, data) == <<"hmac", key, data>>

\* iso.replace(/[:-]|\.\d{3}/g, '') on the characters of an ISO timestamp
RECURSIVE StripIso(_)
StripIso(iso) ==
  IF iso = <<>> THEN <<>>
  ELSE IF Head(iso) \in {":", "-"} THEN StripIso(Tail(iso))
  ELSE IF /\ Head(iso) = "."
          /\ Len(iso) >= 4
          /\ \A i \in 2..4 : iso[i] \in {"0", "1", "2", "3", "4", "5", "6", "7", "8", "9"}
         THEN StripIso(SubSeq(iso, 5, Len(iso)))
  ELSE <<Head(iso)>> \o StripIso(Tail(iso))

\* signWebSocketUrl as first written: the query parameters are kept in a
\* map, the token included, and emitted in the order of their sorted keys
signWebSocketUrlEarlier(endpoint, region, credentials, now) ==
  LET dateStamp == Text(SubSeq(StripIso(now), 1, 8))
      amzDate == Text(SubSeq(StripIso(now), 1, 15)) \o Text(<<"Z">>)
      service == Text(<<"iotdevicegateway">>)
      credentialScope ==
        Join(<<dateStamp, region, service, Text(<<"aws4_request">>)>>, Text(<<"/">>))
      queryParams ==
        <<<<Text(<<"X-Amz-Algorithm">>), Text(<<"AWS4-HMAC-SHA256">>)>>,
          <<Text(<<"X-Amz-Credential">>),
            credentials.AccessKeyId \o Text(<<"/">>) \o credentialScope>>,
          <<Text(<<"X-Amz-Date">>), amzDate>>>>
        \o (IF credentials.Token # <<>>
              THEN <<<<Text(<<"X-Amz-Security-Token">>), credentials.Token>>>>
              ELSE <<>>)
        \o <<<<Text(<<"X-Amz-SignedHeaders">>), Text(<<"host">>)>>>>
      canonicalQueryString ==
        Join([i \in 1..Len(queryParams) |->
                encodeURIComponent(queryParams[i][1]) \o Text(<<"=">>)
                  \o encodeURIComponent(queryParams[i][2])],
             Text(<<"&">>))
      canonicalRequest ==
        Join(<<Text(<<"GET">>), Text(<<"/", "mqtt">>), canonicalQueryString,
               Text(<<"host", ":">>) \o endpoint, <<>>, Text(<<"host">>),
               sha256(<<>>)>>,
             Text(<<"\n">>))
      stringToSign ==
        Join(<<Text(<<"AWS4-HMAC-SHA256">>), amzDate, credentialScope,
               sha256(canonicalRequest)>>,
             Text(<<"\n">>))
      kDate == hmac(Text(<<"AWS4">>) \o credentials.SecretAccessKey, dateStamp)
      kRegion == hmac(kDate, region)
      kService == hmac(kRegion, service)
      kSigning == hmac(kService, Text(<<"aws4_request">>))
      signature == <<[hex |-> hmac(kSigning, stringToSign)]>>
  IN Text(<<"wss", ":", "/", "/">>) \o endpoint \o Text(<<"/", "mqtt", "?">>)
       \o canonicalQueryString \o Text(<<"&", "X-Amz-Signature", "=">>)
       \o signature

\* signWebSocketUrl; now is what `new Date().toISOString()` reads in the call
signWebSocketUrl(endpoint, region, credentials, now) ==
  LET dateStamp == Text(SubSeq(StripIso(now), 1, 8))
      amzDate == Text(SubSeq(StripIso(now), 1, 15)) \o Text(<<"Z">>)
      service == Text(<<"iotdevicegateway">>)
      credentialScope ==
        Join(<<dateStamp, region, service, Text(<<"aws4_request">>)>>, Text(<<"/">>))
      canonicalQueryString ==
        Join(<<Text(<<"X-Amz-Algorithm", "=", "AWS4-HMAC-SHA256">>),
               Text(<<"X-Amz-Credential", "=">>)
                 \o encodeURIComponent(credentials.AccessKeyId \o Text(<<"/">>)
                                         \o credentialScope),
               Text(<<"X-Amz-Date", "=">>) \o amzDate,
               Text(<<"X-Amz-SignedHeaders", "=", "host">>)>>,
             Text(<<"&">>))
      canonicalRequest ==
        Join(<<Text(<<"GET">>), Text(<<"/", "mqtt">>), canonicalQueryString,
               Text(<<"host", ":">>) \o endpoint, <<>>, Text(<<"host">>),
               sha256(<<>>)>>,
             Text(<<"\n">>))
      stringToSign ==
        Join(<<Text(<<"AWS4-HMAC-SHA256">>), amzDate, credentialScope,
               sha256(canonicalRequest)>>,
             Text(<<"\n">>))
      kDate == hmac(Text(<<"AWS4">>) \o credentials.SecretAccessKey, dateStamp)
      kRegion == hmac(kDate, region)
      kService == hmac(kRegion, service)
      kSigning == hmac(kService, Text(<<"aws4_request">>))
      signature == <<[hex |-> hmac(kSigning, stringToSign)]>>
      url ==
        Text(<<"wss", ":", "/", "/">>) \o endpoint \o Text(<<"/", "mqtt", "?">>)
          \o canonicalQueryString \o Text(<<"&", "X-Amz-Signature", "=">>)
          \o signature
  IN IF credentials.Token # <<>>
       THEN url \o Text(<<"&", "X-Amz-Security-Token", "=">>)
              \o encodeURIComponent(credentials.Token)
       ELSE url

AWS_IOT_ENDPOINT == Text(<<"a12rqfdx55bdbv-ats.iot.eu-west-1.amazonaws.com">>)

AWS_REGION == Text(<<"eu-west-1">>)

\* the credentials the authenticator may hand out: key ids and tokens are
\* arbitrary strings (a token may be missing or empty), reserved characters
\* and parameter names included
AwsCredentials ==
  [AccessKeyId : {Text(<<"AKIA">>), Text(<<"A", "/", "B">>),
                  Text(<<"A", "&", "X-Amz-Security-Token", "=", "B">>)},
   SecretAccessKey : {Text(<<"secret">>), <<>>},
   Token : {<<>>, Text(<<"token">>), Text(<<"a", "+", "/", "b", "=">>),
            Text(<<"t", "&", "X-Amz-Signature", "=", "0">>)}]

\* readings of the clock, as toISOString() prints them
Instants ==
  {<<"2", "0", "2", "6", "-", "1", "1", "-", "0", "4", "T", "0", "5", ":",
     "3", "0", ":", "0", "0", ".", "1", "2", "3", "Z">>,
   <<"2", "0", "2", "6", "-", "1", "1", "-", "0", "4", "T", "0", "5", ":",
     "3", "0", ":", "0", "0", ".", "9", "9", "9", "Z">>,
   <<"2", "0", "2", "7", "-", "0", "1", "-", "0", "1", "T", "0", "0", ":",
     "0", "0", ":", "0", "0", ".", "0", "0", "0", "Z">>}

\* the calls of the pure functions; pwsState and robotState range over the
\* members of PwsState and RobotState, a string outside both and a missing
\* value
Calls ==
  LET StateNames ==
        {"on", "off", "holdDelay", "holdWeekly", "programming", "error",
         "fault", "notConnected", "init", "scanning", "finished",
         "paused", "undefined"}
  IN {<<"calculateState", pwsState, robotState>> :
        pwsState \in StateNames, robotState \in StateNames}
  \cup {<<"getFilterBagStatus", value>> :
          value \in (0 - MaxFilterMargin)..(102 + MaxFilterMargin)}
  \cup {<<"signWebSocketUrl", AWS_IOT_ENDPOINT, AWS_REGION, credentials, now>> :
          credentials \in AwsCredentials, now \in Instants}

\* a call of calculateState returns
CalculateState ==
  /\ args[1] = "calculateState"
  /\ result' = [returned |-> TRUE, value |-> calculateState(args[2], args[3])]
  /\ UNCHANGED <<sessionVars, last, previousStatus, currentLedState, capabilities, args>>

\* a call of getFilterBagStatus returns
GetFilterBagStatus ==
  /\ args[1] = "getFilterBagStatus"
  /\ result' = [returned |-> TRUE, value |-> getFilterBagStatus(args[2])]
  /\ UNCHANGED <<sessionVars, last, previousStatus, currentLedState, capabilities, args>>

\* a faulty signer: it leaves the token out until the device is initialised
SignWebSocketUrlBySession ==
  /\ args[1] = "signWebSocketUrl"
  /\ result' = [returned |-> TRUE,
                value |-> signWebSocketUrl(args[2], args[3],
                                           IF inited THEN args[4]
                                           ELSE [args[4] EXCEPT !.Token = <<>>],
                                           args[5])]
  /\ UNCHANGED <<sessionVars, last, previousStatus, currentLedState, capabilities, args>>

\* a call of signWebSocketUrl returns
SignWebSocketUrl ==
  /\ args[1] = "signWebSocketUrl"
  /\ result' = [returned |-> TRUE,
                value |-> signWebSocketUrl(args[2], args[3], args[4], args[5])]
  /\ UNCHANGED <<sessionVars, last, previousStatus, currentLedState, capabilities, args>>

\* ------------------------------------------------------------------- Init
\* the device after construction, no function called yet
Constructed ==
  /\ previousStatus = ""
  /\ currentLedState = [ledMode |-> 1, ledIntensity |-> 80, ledEnable |-> TRUE]
  /\ capabilities = NoCapabilities
  /\ result = [returned |-> FALSE]
  /\ client = 0
  /\ connected = FALSE
  /\ transports = [t \in Transports |-> NoTransport]
  /\ tasks = [t \in Tasks |-> NoTask]
  /\ timers = [k \in TimerKinds |-> NoTimer]
  /\ available = "unset"
  /\ settingsOk \in BOOLEAN
  /\ inited = FALSE
  /\ tornDown = FALSE
  /\ lateClose = FALSE
  /\ robotFamily \in {"M700", "other"}
  /\ last = {}

Init == Constructed /\ args = <<"none">>

\* DolphinDevice.onInit: registers the handlers, then `await connectToCloud()`
OnInit ==
  /\ ~inited
  /\ inited' = TRUE
  /\ SetSup(connectToCloud(Sup, FreeTask, settingsOk))
  /\ UNCHANGED <<client, connected, transports, lateClose, settingsOk, tornDown,
                 robotFamily, deviceVars>>

\* `await this.api.login(email, password)` settles
Login(t, ok) ==
  /\ tasks[t].pc = "login"
  /\ SetSup(IF ok THEN [Sup EXCEPT !.tasks[t].pc = "creds"]
            ELSE connectToCloudCatch(Sup, t, "login failed"))
  /\ UNCHANGED <<client, connected, transports, lateClose, settingsOk, inited, robotFamily, deviceVars, tornDown>>

\* task t passes its credentials to mqtt.connect, which makes transport tr:
\* what other attempts fetched before this connect is older than it from now on
Superseding(tk, t, tr) ==
  [k \in Tasks |->
     IF k = t THEN [tk[k] EXCEPT !.pc = "conn_wait", !.tr = tr, !.creds = "none"]
     ELSE IF tk[k].creds = "fresh" THEN [tk[k] EXCEPT !.creds = "old"]
     ELSE tk[k]]

\* MaytronicsCloud.connect from `await this.disconnect()` on, once that has
\* returned: mqtt.connect, the 30 s timer and the listeners
connect(t, s) ==
  /\ FreeTransport # 0
  /\ client' = FreeTransport
  /\ Commit(MqttConnect(transports, FreeTransport),
            Out([s EXCEPT !.tasks = Superseding(@, t, FreeTransport)],
                <<"mqtt.connect", s.tasks[t].creds>>))

\* MaytronicsCloud.disconnect up to its await: the synchronous part
disconnect(s) ==
  /\ client # 0
  /\ connected' = FALSE
  /\ Commit(End(transports, client),
            IF SubscribeFlushed(transports, client) THEN Emit(s, "error") ELSE s)
  /\ client' = client

\* `await this.api.getAwsCredentials(...)` settles; on success the caller
\* enters MaytronicsCloud.connect, which first disconnects
GetAwsCredentials(t, ok) ==
  /\ tasks[t].pc = "creds"
  /\ IF ~ok
       THEN /\ SetSup(Rejected(Sup, t, "credentials failed"))
            /\ UNCHANGED <<client, connected, transports, lateClose>>
       ELSE IF client = 0
         THEN /\ connect(t, [Sup EXCEPT !.tasks[t].creds = "fresh"])
              /\ UNCHANGED connected
         ELSE disconnect([Sup EXCEPT !.tasks[t].pc = "disc_wait",
                                     !.tasks[t].creds = "fresh"])
  /\ UNCHANGED <<settingsOk, inited, robotFamily, deviceVars, tornDown>>

\* the callback of client.end(true, {}, cb) in disconnect(): the handle is
\* nulled and whoever awaited disconnect() continues
DisconnectCallback(t) ==
  /\ tasks[t].pc \in {"disc_wait", "settings_wait", "teardown_wait"}
  /\ CASE tasks[t].pc = "disc_wait" ->
            /\ connect(t, Sup)
            /\ UNCHANGED tornDown
       [] tasks[t].pc = "settings_wait" ->
            /\ client' = 0
            /\ SetSup(connectToCloud(Sup, t, settingsOk))
            /\ UNCHANGED <<transports, lateClose, tornDown>>
       [] tasks[t].pc = "teardown_wait" ->
            /\ client' = 0
            /\ SetSup(Out([Sup EXCEPT !.tasks[t] = NoTask], <<"return", "torn down">>))
            /\ tornDown' = TRUE
            /\ UNCHANGED <<transports, lateClose>>
  /\ UNCHANGED <<connected, settingsOk, inited, robotFamily, deviceVars>>

\* connectToCloud's catch block after `await this.setUnavailable(message)`
SetUnavailableDone(t) ==
  /\ tasks[t].pc = "catch_wait"
  /\ SetSup(connectToCloudCatchEnd(Sup, t))
  /\ UNCHANGED <<client, connected, transports, lateClose, settingsOk, inited, robotFamily, deviceVars, tornDown>>

\* ------------------------------------------------ session: transport events
\* a `disconnected` handler that marks the device unavailable and arms nothing
OnDisconnectedWithoutReconnect(s) ==
  setUnavailable(s, "Connection lost")

\* DolphinDevice's handler of `disconnected`
OnDisconnected(s) ==
  LET s1 == setUnavailable(s, "Connection lost")
  IN [s1 EXCEPT !.timers = scheduleReconnect(@)]

\* DolphinDevice's handler of `connected` (setAvailable, then requestState)
OnConnected(s) == requestState(setAvailable(s))

\* the transport's 'connect' event: onConnect up to `await subscribeToTopics()`
onConnect(tr, t, c) ==
  IF c = 0
    THEN \* this.client!.removeListener throws on the null handle
         [tr EXCEPT ![t].onConnect = FALSE, ![t].connectTimeout = FALSE]
    ELSE [tr EXCEPT ![t].onConnect = FALSE, ![t].connectTimeout = FALSE,
                    ![t].onFirstError = IF c = t THEN FALSE ELSE @,
                    ![t].sub = c]

TransportConnect(t) ==
  /\ transports[t].net = "connecting"
  /\ transports[t].onConnect
  /\ connected' = TRUE
  /\ Commit([onConnect(transports, t, client) EXCEPT ![t].net = "up"], Sup)
  /\ UNCHANGED <<client, settingsOk, inited, robotFamily, deviceVars, tornDown>>

\* a faulty onConnect: goes on to emit and resolve when the subscription failed
SubscribeCallbackIgnoresError(t, granted) ==
  LET on == transports[t].sub IN
  /\ on # 0
  /\ granted => transports[on].net = "up"
  /\ Commit([transports EXCEPT ![t].sub = 0],
            IF Awaiting(tasks, t) # 0
              THEN Resolved(OnConnected(Emit(IF granted THEN Sup ELSE Emit(Sup, "error"),
                                             "connected")), Awaiting(tasks, t))
              ELSE OnConnected(Emit(IF granted THEN Sup ELSE Emit(Sup, "error"),
                                    "connected")))
  /\ UNCHANGED <<client, connected, settingsOk, inited, robotFamily, deviceVars, tornDown>>

\* the callback of client.subscribe in subscribeToTopics, and the rest of
\* onConnect when the subscription was granted
SubscribeCallback(t, granted) ==
  LET on == transports[t].sub IN
  /\ on # 0
  /\ granted => transports[on].net = "up"
  /\ Commit([transports EXCEPT ![t].sub = 0],
            IF granted
              THEN IF Awaiting(tasks, t) # 0
                THEN Resolved(OnConnected(Emit(Sup, "connected")), Awaiting(tasks, t))
                ELSE OnConnected(Emit(Sup, "connected"))
              ELSE Emit(Sup, "error"))
  /\ UNCHANGED <<client, connected, settingsOk, inited, robotFamily, deviceVars, tornDown>>

\* the transport's first 'error' event: onFirstError, then the error handler
onFirstError(tr, t, c) ==
  IF c = 0
    THEN \* this.client!.removeListener throws on the null handle
         [tr EXCEPT ![t].onFirstError = FALSE, ![t].connectTimeout = FALSE]
    ELSE [tr EXCEPT ![t].onFirstError = FALSE, ![t].connectTimeout = FALSE,
                    ![t].onConnect = IF c = t THEN FALSE ELSE @]

TransportError(t) ==
  /\ transports[t].net \in {"connecting", "up"}
  /\ transports[t].onFirstError
  /\ Commit(Down(onFirstError(transports, t, client), t),
            IF client = 0
              THEN IF SubscribeFlushed(transports, t) THEN Emit(Sup, "error") ELSE Sup
              ELSE IF Awaiting(tasks, t) # 0
                THEN Rejected(Emit(Sup, "error"), Awaiting(tasks, t), "mqtt error")
                ELSE Emit(Sup, "error"))
  /\ UNCHANGED <<client, connected, settingsOk, inited, robotFamily, deviceVars, tornDown>>

\* the 30 s connectTimeout of connect() fires
ConnectTimeout(t) ==
  /\ transports[t].connectTimeout
  /\ client' = 0
  /\ LET s == IF client # 0 /\ SubscribeFlushed(transports, client)
              THEN Emit(Sup, "error") ELSE Sup
     IN Commit([(IF client # 0 THEN End(transports, client) ELSE transports)
                   EXCEPT ![t].connectTimeout = FALSE],
               IF Awaiting(tasks, t) # 0
                 THEN Rejected(s, Awaiting(tasks, t), "timed out")
                 ELSE s)
  /\ UNCHANGED <<connected, settingsOk, inited, robotFamily, deviceVars, tornDown>>

\* a faulty close listener: emits without looking at the connected flag
onCloseAlwaysEmits(c) == [connected |-> FALSE, emit |-> TRUE]

\* the transport's 'close' event: the listener connect() registered
onClose(c) == [connected |-> FALSE, emit |-> c]

TransportClose(t) ==
  /\ transports[t].net # "none"
  /\ connected' = onClose(connected).connected
  /\ LET s == IF SubscribeFlushed(transports, t) THEN Emit(Sup, "error") ELSE Sup
     IN Commit(Down(transports, t),
               IF onClose(connected).emit
                 THEN OnDisconnected(Emit(s, "disconnected"))
                 ELSE s)
  /\ UNCHANGED <<client, settingsOk, inited, robotFamily, deviceVars, tornDown>>

\* the 'close' event of a transport that was ended before its stream closed
LateClose ==
  /\ lateClose
  /\ connected' = onClose(connected).connected
  /\ CommitFrom(transports,
                IF onClose(connected).emit
                  THEN OnDisconnected(Emit(Sup, "disconnected"))
                  ELSE Sup,
                FALSE)
  /\ UNCHANGED <<client, settingsOk, inited, robotFamily, deviceVars, tornDown>>

\* ------------------------------------------------------ supervisor: timers
\* the reconnect timer's callback: `await this.connectToCloud()`
ReconnectTimerFire(isField) ==
  /\ CanFire(timers, "reconnect", isField)
  /\ FreeTask # 0
  /\ SetSup(connectToCloud([Sup EXCEPT !.timers = Fired(@, "reconnect", isField)],
                           FreeTask, settingsOk))
  /\ UNCHANGED <<client, connected, transports, lateClose, settingsOk, inited, robotFamily, deviceVars, tornDown>>

\* the credential-refresh timer's callback up to the await in
\* refreshCredentials: `await this.api.getAwsCredentials(...)`
CredentialRefreshTimerFire(isField) ==
  /\ CanFire(timers, "credentialRefresh", isField)
  /\ FreeTask # 0
  /\ SetSup([Sup EXCEPT !.timers = Fired(@, "credentialRefresh", isField),
                        !.tasks[FreeTask] = [NoTask EXCEPT !.kind = "refreshCredentials",
                                                           !.pc = "creds"]])
  /\ UNCHANGED <<client, connected, transports, lateClose, settingsOk, inited, robotFamily, deviceVars, tornDown>>

\* the state-refresh timer's callback (requestState publishes when connected)
StateRefreshTimerFire(isField) ==
  /\ CanFire(timers, "stateRefresh", isField)
  /\ LET s == [Sup EXCEPT !.timers = Fired(@, "stateRefresh", isField)]
         s1 == IF connected THEN requestTemperatureIfSupported(requestState(s))
               ELSE s
     IN SetSup(Out([s1 EXCEPT !.timers = scheduleStateRefresh(@)],
                   <<"return", "state refresh">>))
  /\ UNCHANGED <<client, connected, transports, lateClose, settingsOk, inited, robotFamily, deviceVars, tornDown>>

\* --------------------------------------------------- supervisor: lifecycle
\* the platform calls no handler of a device whose teardown has begun
Live == inited /\ ~tornDown /\ \A t \in Tasks : tasks[t].kind # "teardown"

\* DolphinDevice.onSettings up to its first real await
OnSettings(credentialsChanged, complete) ==
  /\ Live
  /\ IF ~credentialsChanged
       THEN /\ SetSup(Out(Sup, <<"return", "onSettings unchanged">>))
            /\ UNCHANGED <<client, connected, transports, lateClose, settingsOk>>
       ELSE /\ FreeTask # 0
            /\ settingsOk' = complete
            /\ IF client = 0
                 THEN /\ SetSup(connectToCloud([Sup EXCEPT !.timers = clearTimers(@)],
                                               FreeTask, complete))
                      /\ UNCHANGED <<client, connected, transports, lateClose>>
                 ELSE disconnect([Sup EXCEPT !.timers = clearTimers(@),
                                    !.tasks[FreeTask] =
                                       [NoTask EXCEPT !.kind = "onSettings",
                                                      !.pc = "settings_wait"]])
  /\ UNCHANGED <<inited, robotFamily, deviceVars, tornDown>>

\* DolphinDevice.onDeleted / onUninit up to the await in disconnect()
Teardown ==
  /\ inited
  /\ \A t \in Tasks : tasks[t].kind # "teardown"
  /\ IF client = 0
       THEN /\ SetSup(Out([Sup EXCEPT !.timers = clearTimers(@)], <<"return", "torn down">>))
            /\ tornDown' = TRUE
            /\ UNCHANGED <<client, connected, transports, lateClose>>
       ELSE /\ FreeTask # 0
            /\ disconnect([Sup EXCEPT !.timers = clearTimers(@),
                              !.tasks[FreeTask] = [NoTask EXCEPT !.kind = "teardown",
                                                                 !.pc = "teardown_wait"]])
            /\ UNCHANGED tornDown
  /\ UNCHANGED <<settingsOk, inited, robotFamily, deviceVars>>

\* ------------------------------------------------- supervisor: commands
\* a capability listener or flow action of the device: startCleaning,
\* stopCleaning, returnToBase, setLed, onCapabilityDim, onCapabilityLedMode
\* all call this.cloud.sendCommand(...) and nothing else
SendCommand ==
  /\ inited
  /\ SetSup(Out(sendCommand(Sup), <<"call", "sendCommand">>))
  /\ UNCHANGED <<client, connected, transports, lateClose, settingsOk, inited, robotFamily, deviceVars, tornDown>>

\* --------------------------------------------------- session: publishers
\* public methods of MaytronicsCloud called directly; each one publishes on
\* the current handle or returns at its guard
RequestState ==
  /\ inited
  /\ SetSup(Out(requestState(Sup), <<"call", "requestState">>))
  /\ UNCHANGED <<client, connected, transports, lateClose, settingsOk, inited, robotFamily, deviceVars, tornDown>>

SendDynamic ==
  /\ inited
  /\ SetSup(Out(sendDynamic(Sup, "dynamic"), <<"call", "sendDynamic">>))
  /\ UNCHANGED <<client, connected, transports, lateClose, settingsOk, inited, robotFamily, deviceVars, tornDown>>

RequestTemperature ==
  /\ inited
  /\ SetSup(Out(requestTemperature(Sup), <<"call", "requestTemperature">>))
  /\ UNCHANGED <<client, connected, transports, lateClose, settingsOk, inited, robotFamily, deviceVars, tornDown>>

SendJoystick(direction) ==
  /\ inited
  /\ SetSup(Out(sendJoystick(Sup, direction), <<"call", "sendJoystick">>))
  /\ UNCHANGED <<client, connected, transports, lateClose, settingsOk, inited, robotFamily, deviceVars, tornDown>>

ExitJoystickMode ==
  /\ inited
  /\ SetSup(Out(exitJoystickMode(Sup), <<"call", "exitJoystickMode">>))
  /\ UNCHANGED <<client, connected, transports, lateClose, settingsOk, inited, robotFamily, deviceVars, tornDown>>

\* ------------------------------------------------------- session: inbound
\* JavaScript values as far as handleMessage and its listeners look at them
Undefined == [t |-> "undefined"]

JsonNull == [t |-> "null"]

JsonNumber(n) == [t |-> "number", n |-> n]

JsonObject(f) == [t |-> "object", f |-> f]

SyntaxError == [t |-> "SyntaxError"]

\* reading a property of null or undefined throws a TypeError
Nullish(v) == v.t \in {"undefined", "null"}

\* v.k for a value that is not nullish
Get(v, k) == IF v.t = "object" /\ k \in DOMAIN v.f THEN v.f[k] ELSE Undefined

\* v?.k
GetOptional(v, k) == IF Nullish(v) THEN Undefined ELSE Get(v, k)

Truthy(v) == ~Nullish(v) /\ ~(v.t = "number" /\ v.n = 0)

\* the payloads a message carries
Payloads ==
  { "", "not json", "{\"state\":", "null", "7", "{}",
    "{\"state\":null}", "{\"state\":{}}", "{\"state\":{\"reported\":null}}",
    "{\"state\":{\"reported\":{}}}",
    "{\"state\":{\"reported\":{}},\"version\":0}",
    "{\"state\":{\"reported\":{}},\"version\":3}",
    "{\"type\":\"iotResponse\",\"temperature\":25}" }

\* JSON.parse(payload.toString()) on these payloads
JSONparse(payload) ==
  CASE payload = "null" -> JsonNull
    [] payload = "7" -> JsonNumber(7)
    [] payload = "{}" -> JsonObject(<<>>)
    [] payload = "{\"state\":null}" -> JsonObject([state |-> JsonNull])
    [] payload = "{\"state\":{}}" -> JsonObject([state |-> JsonObject(<<>>)])
    [] payload = "{\"state\":{\"reported\":null}}" ->
         JsonObject([state |-> JsonObject([reported |-> JsonNull])])
    [] payload = "{\"state\":{\"reported\":{}}}" ->
         JsonObject([state |-> JsonObject([reported |-> JsonObject(<<>>)])])
    [] payload = "{\"state\":{\"reported\":{}},\"version\":0}" ->
         JsonObject([state |-> JsonObject([reported |-> JsonObject(<<>>)]),
                     version |-> JsonNumber(0)])
    [] payload = "{\"state\":{\"reported\":{}},\"version\":3}" ->
         JsonObject([state |-> JsonObject([reported |-> JsonObject(<<>>)]),
                     version |-> JsonNumber(3)])
    [] payload = "{\"type\":\"iotResponse\",\"temperature\":25}" ->
         JsonObject([type |-> [t |-> "string"], temperature |-> JsonNumber(25)])
    [] OTHER -> SyntaxError

\* a topic is the sequence of its levels ('/' separates them)
motorUnitSerial == "SN"

Topics ==
  { <<"$aws", "things", motorUnitSerial, "shadow", "get", "accepted">>,
    <<"$aws", "things", motorUnitSerial, "shadow", "update", "accepted">>,
    <<"$aws", "things", motorUnitSerial, "shadow", "get", "rejected">>,
    <<"$aws", "things", motorUnitSerial, "shadow", "update", "rejected">>,
    <<"$aws", "things", motorUnitSerial, "shadow", "update", "delta">>,
    <<"$aws", "things", motorUnitSerial, "shadow", "update", "documents">>,
    <<"Maytronics", motorUnitSerial, "main">> }

\* topic.includes('/a/b/c'), topic.includes('/a/'), topic.includes('a/') and
\* topic.endsWith('/a') on whole levels
IncludesLevels(topic, levels) ==
  \E i \in 2..Len(topic) :
    /\ i + Len(levels) - 1 <= Len(topic)
    /\ \A j \in 1..Len(levels) : topic[i + j - 1] = levels[j]

IncludesInnerLevel(topic, level) == \E i \in 2..(Len(topic) - 1) : topic[i] = level

IncludesLevelBeforeSlash(topic, level) == \E i \in 1..(Len(topic) - 1) : topic[i] = level

EndsWithLevel(topic, level) == Len(topic) >= 2 /\ topic[Len(topic)] = level

\* DolphinDevice.onDynamicMessage reads message.type first
onDynamicMessageThrows(message) == Nullish(message)

handleMessageSilentCatch(s, topic, payload) ==
  LET data == JSONparse(payload)
      parseError == s
  IN  IF data.t = "SyntaxError" THEN parseError
      ELSE IF \/ IncludesLevels(topic, <<"shadow", "get", "accepted">>)
              \/ IncludesLevels(topic, <<"shadow", "update", "accepted">>)
        THEN IF Nullish(data) THEN parseError
             ELSE IF Truthy(GetOptional(Get(data, "state"), "reported"))
               THEN Out(s, <<"emit", "stateUpdate",
                             IF Truthy(Get(data, "version"))
                               THEN Get(data, "version").n ELSE 0>>)
               ELSE s
      ELSE IF IncludesInnerLevel(topic, "shadow") /\ IncludesLevels(topic, <<"rejected">>)
        THEN Emit(s, "error")
      ELSE IF IncludesLevelBeforeSlash(topic, "Maytronics") /\ EndsWithLevel(topic, "main")
        THEN IF onDynamicMessageThrows(data)
               THEN Emit(Emit(s, "dynamicMessage"), "error")
               ELSE Emit(s, "dynamicMessage")
      ELSE s

\* MaytronicsCloud.handleMessage: listeners run inside emit(), inside the try
handleMessage(s, topic, payload) ==
  LET data == JSONparse(payload)
      parseError == Emit(s, "error")
  IN  IF data.t = "SyntaxError" THEN parseError
      ELSE IF \/ IncludesLevels(topic, <<"shadow", "get", "accepted">>)
              \/ IncludesLevels(topic, <<"shadow", "update", "accepted">>)
        THEN IF Nullish(data) THEN parseError
             ELSE IF Truthy(GetOptional(Get(data, "state"), "reported"))
               THEN Out(s, <<"emit", "stateUpdate",
                             IF Truthy(Get(data, "version"))
                               THEN Get(data, "version").n ELSE 0>>)
               ELSE s
      ELSE IF IncludesInnerLevel(topic, "shadow") /\ IncludesLevels(topic, <<"rejected">>)
        THEN Emit(s, "error")
      ELSE IF IncludesLevelBeforeSlash(topic, "Maytronics") /\ EndsWithLevel(topic, "main")
        THEN IF onDynamicMessageThrows(data)
               THEN Emit(Emit(s, "dynamicMessage"), "error")
               ELSE Emit(s, "dynamicMessage")
      ELSE s

\* the 'message' event of a transport that is up
Message(t, topic, payload) ==
  /\ transports[t].net = "up" /\ ~transports[t].ended
  /\ SetSup(Out(handleMessage(Sup, topic, payload),
                <<"call", "handleMessage", topic, payload>>))
  /\ UNCHANGED <<client, connected, transports, lateClose, settingsOk, inited, robotFamily, deviceVars, tornDown>>

\* ------------------------------------------------------------------- Next
Next ==
  \/ OnInit
  \/ \E t \in Tasks, ok \in BOOLEAN : Login(t, ok)
  \/ \E t \in Tasks, ok \in BOOLEAN : GetAwsCredentials(t, ok)
  \/ \E t \in Tasks : DisconnectCallback(t)
  \/ \E t \in Tasks : SetUnavailableDone(t)
  \/ \E t \in Transports : TransportConnect(t)
  \/ \E t \in Transports, granted \in BOOLEAN : SubscribeCallback(t, granted)
  \/ \E t \in Transports : TransportError(t)
  \/ \E t \in Transports : ConnectTimeout(t)
  \/ \E t \in Transports : TransportClose(t)
  \/ LateClose
  \/ \E f \in BOOLEAN : ReconnectTimerFire(f)
  \/ \E f \in BOOLEAN : CredentialRefreshTimerFire(f)
  \/ \E f \in BOOLEAN : StateRefreshTimerFire(f)
  \/ \E ch \in BOOLEAN, ok \in BOOLEAN : OnSettings(ch, ok)
  \/ Teardown
  \/ SendCommand

Spec == Init /\ [][Next]_vars

\* The session with its public methods and inbound messages, under a
\* supervisor that runs one connect sequence at a time.
OneAtATime == Cardinality(InFlight') <= 1

CloudNext ==
  \/ OnInit /\ OneAtATime
  \/ \E t \in Tasks, ok \in BOOLEAN : Login(t, ok) /\ OneAtATime
  \/ \E t \in Tasks, ok \in BOOLEAN : GetAwsCredentials(t, ok) /\ OneAtATime
  \/ \E t \in Tasks : DisconnectCallback(t) /\ OneAtATime
  \/ \E t \in Tasks : SetUnavailableDone(t) /\ OneAtATime
  \/ \E t \in Transports : TransportConnect(t) /\ OneAtATime
  \/ \E t \in Transports, granted \in BOOLEAN : SubscribeCallback(t, granted) /\ OneAtATime
  \/ \E t \in Transports : TransportError(t) /\ OneAtATime
  \/ \E t \in Transports : ConnectTimeout(t) /\ OneAtATime
  \/ \E t \in Transports : TransportClose(t) /\ OneAtATime
  \/ LateClose /\ OneAtATime
  \/ \E f \in BOOLEAN : ReconnectTimerFire(f) /\ OneAtATime
  \/ \E f \in BOOLEAN : CredentialRefreshTimerFire(f) /\ OneAtATime
  \/ \E f \in BOOLEAN : StateRefreshTimerFire(f) /\ OneAtATime
  \/ \E ch \in BOOLEAN, ok \in BOOLEAN : OnSettings(ch, ok) /\ OneAtATime
  \/ Teardown /\ OneAtATime
  \/ SendCommand
  \/ RequestState
  \/ SendDynamic
  \/ RequestTemperature
  \/ \E direction \in {"forward", "stop"} : SendJoystick(direction)
  \/ ExitJoystickMode
  \/ \E t \in Transports, topic \in Topics, payload \in Payloads : Message(t, topic, payload)

CloudSpec == Init /\ [][CloudNext]_vars

\* The supervisor left to itself (no settings change, no teardown, complete
\* settings) in an environment where a call that stays possible is answered,
\* an armed timer fires and an event that stays due is delivered.
LiveNext ==
  \/ OnInit
  \/ \E t \in Tasks, ok \in BOOLEAN : Login(t, ok)
  \/ \E t \in Tasks, ok \in BOOLEAN : GetAwsCredentials(t, ok)
  \/ \E t \in Tasks : DisconnectCallback(t)
  \/ \E t \in Tasks : SetUnavailableDone(t)
  \/ \E t \in Transports : TransportConnect(t)
  \/ \E t \in Transports, granted \in BOOLEAN : SubscribeCallback(t, granted)
  \/ \E t \in Transports : TransportError(t)
  \/ \E t \in Transports : ConnectTimeout(t)
  \/ \E t \in Transports : TransportClose(t)
  \/ LateClose
  \/ \E f \in BOOLEAN : ReconnectTimerFire(f)
  \/ \E f \in BOOLEAN : CredentialRefreshTimerFire(f)
  \/ \E f \in BOOLEAN : StateRefreshTimerFire(f)

LiveInit == Init /\ robotFamily = "M700"

LiveFairness ==
  /\ WF_vars(OnInit)
  /\ \A t \in Tasks :
       /\ WF_vars(Login(t, TRUE))
       /\ WF_vars(GetAwsCredentials(t, TRUE))
       /\ WF_vars(DisconnectCallback(t))
       /\ WF_vars(SetUnavailableDone(t))
  /\ \A t \in Transports :
       /\ WF_vars(TransportConnect(t))
       /\ WF_vars(SubscribeCallback(t, TRUE))
       /\ WF_vars(ConnectTimeout(t))
  /\ WF_vars(LateClose)
  /\ \A f \in BOOLEAN :
       /\ WF_vars(ReconnectTimerFire(f))
       /\ WF_vars(CredentialRefreshTimerFire(f))

LiveSpec == LiveInit /\ [][LiveNext]_vars /\ LiveFairness

\* a step in which a login, a credential fetch, a transport connect or a
\* subscription fails, or a transport goes down
Failure ==
  \/ \E t \in Tasks : Login(t, FALSE) \/ GetAwsCredentials(t, FALSE)
  \/ \E t \in Transports :
       \/ SubscribeCallback(t, FALSE)
       \/ TransportError(t)
       \/ ConnectTimeout(t)
       \/ TransportClose(t)
  \/ LateClose

\* The state interpreter of the device under any sequence of `stateUpdate`
\* notifications (elapsedMinutes: what the clock says about the cycle).
DeviceNext ==
  \/ OnInit
  \/ \E state \in ReportedStates, elapsedMinutes \in {0, 90} :
       OnStateUpdate(state, elapsedMinutes)

DeviceInit == Init /\ settingsOk /\ robotFamily = "M700"

DeviceSpec == DeviceInit /\ [][DeviceNext]_vars

\* The pure functions, each called with arguments drawn from Calls, before
\* and after the device was initialised.
PureNext ==
  \/ CalculateState
  \/ GetFilterBagStatus
  \/ SignWebSocketUrl
  \/ OnInit

PureInit == Constructed /\ settingsOk /\ robotFamily = "M700" /\ args \in Calls

PureSpec == PureInit /\ [][PureNext]_vars

\* ============================================================= properties
Emitted(event) == <<"emit", event>> \in last

Returned(what) == <<"return", what>> \in last

\* the connect sequences between their start and the settling of their
\* cloud.connect() call
ConnectAttempts ==
  {k \in Tasks : /\ tasks[k].kind \in {"connectToCloud", "refreshCredentials"}
                 /\ tasks[k].pc \in {"login", "creds", "disc_wait", "conn_wait"}}

\* a connect() promise nothing can settle any more: its 30 s timer was
\* cleared, its once-listeners are gone and no subscription is outstanding
Hung(k) ==
  /\ tasks[k].pc = "conn_wait"
  /\ \/ tasks[k].tr = 0
     \/ LET t == transports[tasks[k].tr]
        IN ~t.connectTimeout /\ ~t.onConnect /\ ~t.onFirstError /\ t.sub = 0

\* C1: at most one transport created by the session is open at any time.
C1_AtMostOneOpenTransport == Cardinality(OpenTransports) <= 1

\* C2: at most one connect attempt of the supervisor is in flight at any time.
C2_OneConnectAttemptInFlight == Cardinality(ConnectAttempts) <= 1

\* C3: in the step in which a connect() call resolves, the only open
\* transport is the one that call created and the handle refers to it.
C3_ResolvedConnectOwnsTheTransport ==
  [][\A t \in Transports :
       (/\ Awaiting(tasks, t) # 0
        /\ Awaiting(tasks', t) = 0
        /\ (Returned("connectToCloud connected")' \/ Returned("credentials refreshed")'))
       => (client' = t /\ OpenTransports' = {t})]_vars

\* C4: once a teardown has completed, no supervisor timer is armed and no
\* transport is open.
C4_TornDownIsQuiet ==
  tornDown => /\ \A k \in TimerKinds : Armed(timers, k) = 0
              /\ OpenTransports = {}

\* C5: every pending connect() can still be settled by something (a pending
\* connect() nothing can settle stays pending forever).
C5_PendingConnectCanSettle == \A k \in Tasks : ~Hung(k)

C7_DisconnectedCancelsRecurringTimers ==
  Emitted("disconnected") =>
    /\ available = "unavailable"
    /\ Armed(timers, "credentialRefresh") = 0
    /\ Armed(timers, "stateRefresh") = 0
    /\ Armed(timers, "reconnect") = 1

\* C8: each timer kind has at most one armed instance; a `disconnected` event
\* leaves exactly one reconnect timer armed and a successful connectToCloud
\* leaves exactly one credential-refresh and one state-refresh timer armed.
C8_NoTimerDuplication ==
  /\ \A k \in TimerKinds : Armed(timers, k) <= 1
  /\ Emitted("disconnected") => Armed(timers, "reconnect") = 1
  /\ Returned("connectToCloud connected") =>
       /\ Armed(timers, "credentialRefresh") = 1
       /\ Armed(timers, "stateRefresh") = 1

C8_Witness ==
  /\ Returned("connectToCloud connected")
  /\ Armed(timers, "credentialRefresh") = 1
  /\ Armed(timers, "stateRefresh") = 1
  /\ available = "available"

\* the step arms no timer of kind k
NotArmedByStep(k) ==
  /\ timers'[k].live => timers[k].live
  /\ Armed(timers', k) <= Armed(timers, k)

\* the message connectToCloud's catch block reports for a failure at pc
FailureMessages(pc) ==
  CASE pc = "login" -> {"login failed"}
    [] pc = "creds" -> {"credentials failed"}
    [] pc = "conn_wait" -> {"mqtt error", "timed out"}
    [] OTHER -> {"Missing settings"}

C11_FailureMarksUnavailable ==
  ((Returned("connectToCloud failed") \/ Returned("credential refresh failed"))
     /\ ~connected)
  => (available = "unavailable" /\ Armed(timers, "reconnect") = 1)

\* transport t is not the session's current transport any more: the handle
\* is null or refers to another transport
Superseded(t) ==
  /\ transports[t].net # "none"
  /\ client # t

\* the step delivers 'connect', the first 'error' or the 30 s timeout of t:
\* exactly these clear the timer connect() armed for t
ConnectEventOf(t) == transports[t].connectTimeout /\ ~transports'[t].connectTimeout

\* C12: a connect success, first error or 30 s timeout of a superseded
\* transport leaves the handle, the connected flag and the open transports as
\* they are and emits neither `connected` nor `disconnected`.
C12_StaleEventsHaveNoEffect ==
  [][\A t \in Transports :
       (Superseded(t) /\ ConnectEventOf(t)) =>
          /\ client' = client
          /\ connected' = connected
          /\ OpenTransports' = OpenTransports
          /\ ~Emitted("connected")'
          /\ ~Emitted("disconnected")']_vars

\* the step in which the credential-refresh callback completes successfully
\* for the connect() that created transport t
RefreshSucceeds(t) ==
  /\ Awaiting(tasks, t) # 0
  /\ tasks[Awaiting(tasks, t)].kind = "refreshCredentials"
  /\ Returned("credentials refreshed")'

\* C13: when the credential-refresh callback succeeds, the old transport is
\* closed and the new one is the connected, current one, a state request is
\* published on it, and exactly one credential-refresh timer is armed (the
\* credentials were fetched before: the callback passes its awaits in order).
C13_RefreshOrder ==
  [][\A t \in Transports :
       RefreshSucceeds(t) =>
          /\ client' = t /\ connected'
          /\ OpenTransports' = {t}
          /\ <<"publish", "state">> \in last'
          /\ Armed(timers', "credentialRefresh") = 1]_vars

\* C14: whenever the state-refresh callback has run, exactly one state-refresh
\* timer is armed again, and it has published a state request exactly when
\* the session was connected (and the temperature poll exactly when it was
\* connected and the robot is of the M700 family).
C14_StateRefreshAlwaysRearms ==
  [][Returned("state refresh")' =>
       /\ timers'["stateRefresh"].live
       /\ Armed(timers', "stateRefresh") = 1
       /\ (<<"publish", "state">> \in last') <=> connected
       /\ (<<"publish", "temperature">> \in last') <=>
            (connected /\ robotFamily = "M700")]_vars

\* C15: a connectToCloud that has just succeeded has marked the device
\* available, published a state request and left one credential-refresh and
\* one state-refresh timer armed; and whenever the session is connected and
\* no operation of the supervisor is in flight, the device is marked available.
C15_ConnectedMeansAvailable ==
  /\ Returned("connectToCloud connected") =>
       /\ available = "available"
       /\ <<"publish", "state">> \in last
       /\ Armed(timers, "credentialRefresh") = 1
       /\ Armed(timers, "stateRefresh") = 1
  /\ (connected /\ InFlight = {}) => available = "available"

\* the step in which onSettings has awaited its disconnect() and starts the
\* new connect sequence
SettingsRestart ==
  \E k \in Tasks : tasks[k].pc = "settings_wait" /\ tasks'[k].pc # "settings_wait"

\* C16: when onSettings starts its new connect sequence, no timer is armed
\* and no transport is open; an onSettings call whose changed keys include
\* neither email nor password changes no timer, transport, handle or flag.
C16_SettingsChangeRestarts ==
  [][/\ SettingsRestart =>
          /\ \A k \in TimerKinds : Armed(timers, k) = 0
          /\ OpenTransports = {}
     /\ Returned("onSettings unchanged")' =>
          /\ timers' = timers /\ transports' = transports
          /\ client' = client /\ connected' = connected]_vars

Called(what) == <<"call", what>> \in last

\* C17: sendCommand() on a session that is not connected emits exactly one
\* `error` and publishes nothing; on a connected session it publishes exactly
\* one shadow update and emits nothing; it keeps nothing to publish later.
C17_SendCommand ==
  [][Called("sendCommand")' =>
       /\ last' = {<<"call", "sendCommand">>,
                   IF connected THEN <<"publish", "update">> ELSE <<"emit", "error">>}
       /\ tasks' = tasks /\ timers' = timers]_vars

SilentPublishers ==
  {"requestState", "sendDynamic", "requestTemperature", "sendJoystick", "exitJoystickMode"}

\* C18: requestState(), sendDynamic(), requestTemperature(), sendJoystick()
\* and exitJoystickMode() called while the connected flag is false (or the
\* handle is missing) publish nothing, emit nothing and leave handle, flag
\* and transports unchanged.
C18_PublishersNoOpWhenDisconnected ==
  [][\A p \in SilentPublishers :
       (Called(p)' /\ (~connected \/ client = 0)) =>
          /\ last' = {<<"call", p>>}
          /\ client' = client /\ connected' = connected
          /\ transports' = transports]_vars

\* sendJoystick() was called on a session that holds a handle (a transport
\* still connecting) but is not connected, and nothing was published
C18_Witness ==
  /\ last = {<<"call", "sendJoystick">>}
  /\ client # 0 /\ ~connected

Received(topic, payload) == <<"call", "handleMessage", topic, payload>> \in last

\* the payloads that are not JSON text
NonJson == {"", "not json", "{\"state\":"}

\* C19: a message whose payload is not JSON, on any subscribed topic, emits
\* `error` and nothing else, and leaves handle, flag and transports unchanged.
C19_NonJsonPayload ==
  [][\A topic \in Topics, payload \in NonJson :
       Received(topic, payload)' =>
          /\ last' = {<<"call", "handleMessage", topic, payload>>, <<"emit", "error">>}
          /\ client' = client /\ connected' = connected
          /\ transports' = transports]_vars

\* a truncated document arrived on the get/accepted topic of a connected
\* session, which is still connected
C19_Witness ==
  /\ Received(<<"$aws", "things", motorUnitSerial, "shadow", "get", "accepted">>, "{\"state\":")
  /\ Emitted("error")
  /\ connected /\ client # 0

\* what a handler emitted
Notifications == {m \in last : m[1] = "emit"}

\* the JSON payloads with a reported section, and their shadow version
WithReported ==
  { "{\"state\":{\"reported\":{}}}",
    "{\"state\":{\"reported\":{}},\"version\":0}",
    "{\"state\":{\"reported\":{}},\"version\":3}" }

VersionOf(payload) == IF payload = "{\"state\":{\"reported\":{}},\"version\":3}" THEN 3 ELSE 0

AcceptedTopics ==
  {topic \in Topics : topic[Len(topic)] = "accepted"}

RejectedTopics ==
  {topic \in Topics : topic[Len(topic)] = "rejected"}

DynamicTopics == {<<"Maytronics", motorUnitSerial, "main">>}

\* C20: a message with a JSON payload gives, by topic: on get/accepted and
\* update/accepted one stateUpdate with the shadow version (0 when absent) if
\* there is a reported section and nothing otherwise; on a rejected shadow
\* topic one `error`; on the dynamic topic one dynamicMessage; on any other
\* topic nothing.
C20_OneNotificationByTopic ==
  \A topic \in Topics, payload \in Payloads \ NonJson :
    Received(topic, payload) =>
      Notifications =
        IF topic \in AcceptedTopics
          THEN IF payload \in WithReported
                 THEN {<<"emit", "stateUpdate", VersionOf(payload)>>}
                 ELSE {}
        ELSE IF topic \in RejectedTopics THEN {<<"emit", "error">>}
        ELSE IF topic \in DynamicTopics THEN {<<"emit", "dynamicMessage">>}
        ELSE {}

\* C21: a step that emits `connected` or resolves connect() is the callback
\* of a pending subscribe() without an error; a step in which the
\* subscription fails (an `error` from the subscribe callback) does neither.
C21_ResolvesAfterSubscribe ==
  [][(\/ Emitted("connected")'
      \/ Returned("connectToCloud connected")'
      \/ Returned("credentials refreshed")') =>
       /\ \E t \in Transports :
            transports[t].sub # 0 /\ transports[transports[t].sub].net = "up"
       /\ ~Emitted("error")']_vars

\* the subscription of a first connect was acknowledged: `connected` was
\* emitted and connectToCloud's connect() resolved in the same step
C21_Witness ==
  /\ Emitted("connected")
  /\ Returned("connectToCloud connected")
  /\ ~Emitted("error")
  /\ \A t \in Transports : transports[t].sub = 0

\* C22: every mqtt.connect of the supervisor is given credentials that its
\* own attempt fetched and that no other mqtt.connect has followed.
C22_FreshCredentialsPerConnect ==
  \A c \in {"none", "old"} : <<"mqtt.connect", c>> \notin last

\* C23: missing settings mark the device unavailable without a login or a
\* transport connect, and the attempt ends without arming the reconnect timer
\* (the attempt: connectToCloud has just thrown and is the only one waiting
\* in a catch block).
C23_MissingSettingsIsFatal ==
  [][/\ <<"setUnavailable", "Missing settings">> \in last' =>
          /\ available' = "unavailable"
          /\ \A c \in {"none", "fresh", "old"} : <<"mqtt.connect", c>> \notin last'
          /\ \A t \in Tasks : tasks'[t].pc = "login" => tasks[t].pc = "login"
     /\ (/\ <<"setUnavailable", "Missing settings">> \in last
         /\ Cardinality({t \in Tasks : tasks[t].pc = "catch_wait"}) = 1
         /\ Returned("connectToCloud failed")') =>
          NotArmedByStep("reconnect")]_vars

\* the step's handler was onStateUpdate, and the reported state it was given
IsStateUpdate(l) == \E m \in l : Len(m) = 3 /\ m[2] = "onStateUpdate"

StateOf(l) == (CHOOSE m \in l : Len(m) = 3 /\ m[2] = "onStateUpdate")[3]

TriggersFired(l) == {m[2] : m \in {x \in l : x[1] = "trigger"}}

\* C24: an update with a systemState fragment records the derived status; it
\* fires cleaning_started iff the status goes from a value other than
\* cleaning (the initial empty one included) to cleaning, and
\* cleaning_finished iff it goes from cleaning to another value; an update
\* without the fragment fires neither and keeps the recorded status.
C24_StatusTransitionsFireOnce ==
  [][IsStateUpdate(last') =>
       LET sys == StateOf(last').systemState
           current == calculateState(sys.pwsState, sys.robotState)
       IN IF sys.present
            THEN /\ previousStatus' = current
                 /\ ("cleaning_started" \in TriggersFired(last'))
                      <=> (current = "cleaning" /\ previousStatus # "cleaning")
                 /\ ("cleaning_finished" \in TriggersFired(last'))
                      <=> (previousStatus = "cleaning" /\ current # "cleaning")
            ELSE /\ previousStatus' = previousStatus
                 /\ TriggersFired(last') \cap {"cleaning_started", "cleaning_finished"} = {}]_vars

\* a cleaning robot was reported finished: cleaning_finished has fired and
\* the recorded status is off
C24_Witness ==
  /\ IsStateUpdate(last)
  /\ "cleaning_finished" \in TriggersFired(last)
  /\ previousStatus = "off"
  /\ capabilities.cycle_count = Val(5)

\* C25 as stated: filter_bag_full fires on every update whose
\* filterBagIndication.state is >= 100 and on no other update, and a state of
\* 100 sets filter_status to 100.
C25_FiresAtOrAbove100 ==
  [][IsStateUpdate(last') =>
       LET fbi == StateOf(last').filterBagIndication
       IN /\ ("filter_bag_full" \in TriggersFired(last'))
               <=> (fbi.present /\ fbi.state >= 100)
          /\ (fbi.present /\ fbi.state = 100)
               => capabilities'.filter_status = Val(100)]_vars

\* C25: filter_bag_full is level-triggered on the value 100: it fires on
\* every update whose filterBagIndication.state is exactly 100, repeats
\* included, and on no other update; a state of 100 sets filter_status to
\* 100, and a state above 100 leaves filter_status as it was.
C25_FiresAtExactly100 ==
  [][IsStateUpdate(last') =>
       LET fbi == StateOf(last').filterBagIndication
       IN /\ ("filter_bag_full" \in TriggersFired(last'))
               <=> (fbi.present /\ fbi.state = 100)
          /\ (fbi.present /\ fbi.state = 100)
               => capabilities'.filter_status = Val(100)
          /\ (fbi.present /\ fbi.state > 100)
               => capabilities'.filter_status = capabilities.filter_status]_vars

\* a full filter bag is reported after the robot's status was already known:
\* the trigger fires and filter_status is 100
C25_Witness ==
  /\ IsStateUpdate(last)
  /\ StateOf(last).filterBagIndication.present
  /\ StateOf(last).filterBagIndication.state = 100
  /\ ~StateOf(last).systemState.present
  /\ "filter_bag_full" \in TriggersFired(last)
  /\ capabilities.filter_status = Val(100)
  /\ previousStatus # ""

\* C26: an update in which a fragment is absent leaves what is derived from
\* that fragment as it was and fires none of its triggers: systemState
\* (recorded status, onoff, robot_status, cycle_count, cleaning_started,
\* cleaning_finished), cycleInfo (cleaning_mode, cycle_time_remaining), led
\* (current LED state, led_mode, dim), filterBagIndication (filter_status,
\* filter_bag_full), debug and wifi (wifi_signal, network_name), robotError
\* (robot_error, robot_error_occurred).
C26_AbsentFragmentLeavesStateUnchanged ==
  [][IsStateUpdate(last') =>
       LET state == StateOf(last')
           Same(name) == capabilities'[name] = capabilities[name]
           NotFired(name) == name \notin TriggersFired(last')
       IN /\ ~state.systemState.present =>
               /\ previousStatus' = previousStatus
               /\ Same("onoff") /\ Same("robot_status") /\ Same("cycle_count")
               /\ NotFired("cleaning_started") /\ NotFired("cleaning_finished")
          /\ ~state.cycleInfo.present =>
               Same("cleaning_mode") /\ Same("cycle_time_remaining")
          /\ ~state.led.present =>
               /\ currentLedState' = currentLedState
               /\ Same("led_mode") /\ Same("dim")
          /\ ~state.filterBagIndication.present =>
               Same("filter_status") /\ NotFired("filter_bag_full")
          /\ ~state.debug.present => Same("wifi_signal")
          /\ (~state.debug.present /\ ~state.wifi.present) => Same("network_name")
          /\ ~state.robotError.present =>
               Same("robot_error") /\ NotFired("robot_error_occurred")]_vars

\* an update carrying only a robotError fragment arrives after the status,
\* the LED state and the filter level were reported: all three are kept
C26_Witness ==
  /\ IsStateUpdate(last)
  /\ StateOf(last).robotError.present
  /\ \A f \in FragmentNames \ {"robotError"} : ~StateOf(last)[f].present
  /\ "robot_error_occurred" \in TriggersFired(last)
  /\ previousStatus = "cleaning"
  /\ capabilities.led_mode = Val("always_on")
  /\ currentLedState.ledMode = 2
  /\ capabilities.filter_status = Val(50)

\* the function whose call returned, if one did
ReturnedFrom(name) == args[1] = name /\ result.returned

\* C27: for every pair (pwsState, robotState), values outside the
\* enumerations included, calculateState returns the result of the first of
\* the seven ordered rules that matches (error; programming; holddelay;
\* holdweekly; init; cleaning; otherwise off), so a pair that matches an
\* earlier rule never gets the result of a later one.
C27_FirstMatchingRuleWins ==
  ReturnedFrom("calculateState") =>
    LET power == args[2]
        robot == args[3]
        Matches(n) ==
          CASE n = 1 -> power = "error" \/ robot = "fault"
            [] n = 2 -> power = "programming" /\ robot = "programming"
            [] n = 3 -> power = "holdDelay"
            [] n = 4 -> power = "holdWeekly"
            [] n = 5 -> power = "on" /\ robot = "init"
            [] n = 6 -> \/ power = "programming" /\ robot # "finished"
                        \/ power = "on" /\ robot \notin {"notConnected", "finished"}
            [] n = 7 -> TRUE
        Outcome == <<"error", "programming", "holddelay", "holdweekly", "init",
                     "cleaning", "off">>
        first == CHOOSE n \in 1..7 : Matches(n) /\ \A m \in 1..(n - 1) : ~Matches(m)
    IN /\ result.value = Outcome[first]
       /\ \A later \in (first + 1)..7 : result.value # Outcome[later]

\* a pair that matches both the error rule and the cleaning rule is an error
C27_Witness ==
  /\ ReturnedFrom("calculateState")
  /\ args[2] = "programming"
  /\ args[3] = "fault"
  /\ result.value = "error"

\* C28: getFilterBagStatus maps every integer: below 0 to unknown, 0 to
\* empty, 1..25 to partially_full, 26..74 to getting_full, 75..99 to
\* almost_full, 100 to full, 101 to fault, 102 to not_available, above 102
\* to unknown.
C28_FilterBagBands ==
  ReturnedFrom("getFilterBagStatus") =>
    LET v == args[2]
    IN /\ v < 0 => result.value = "unknown"
       /\ v = 0 => result.value = "empty"
       /\ v \in 1..25 => result.value = "partially_full"
       /\ v \in 26..74 => result.value = "getting_full"
       /\ v \in 75..99 => result.value = "almost_full"
       /\ v = 100 => result.value = "full"
       /\ v = 101 => result.value = "fault"
       /\ v = 102 => result.value = "not_available"
       /\ v > 102 => result.value = "unknown"

\* a value above the last code is classified as unknown
C28_Witness ==
  /\ ReturnedFrom("getFilterBagStatus")
  /\ args[2] = 103
  /\ result.value = "unknown"

\* the pieces of a text between the occurrences of a separator
RECURSIVE Split(_, _)
Split(text, sep) ==
  IF \A i \in 1..Len(text) : text[i] # Ch(sep) THEN <<text>>
  ELSE LET i == CHOOSE k \in 1..Len(text) :
                  text[k] = Ch(sep) /\ \A j \in 1..(k - 1) : text[j] # Ch(sep)
       IN <<SubSeq(text, 1, i - 1)>> \o Split(SubSeq(text, i + 1, Len(text)), sep)

\* the query parameters of a URL, in order, and their names
Parameters(url) ==
  LET start == CHOOSE k \in 1..Len(url) :
                 url[k] = Ch("?") /\ \A j \in 1..(k - 1) : url[j] # Ch("?")
  IN Split(SubSeq(url, start + 1, Len(url)), "&")

ParameterNames(url) ==
  [i \in 1..Len(Parameters(url)) |-> Split(Parameters(url)[i], "=")[1]]

\* C29: the query parameters of the signed URL are Algorithm, Credential,
\* Date, SignedHeaders in this order, then the signature, then the security
\* token if and only if the credentials carry one; the canonical query
\* string that was signed is the part before the signature and has no
\* security-token parameter.  (The signed string is read off the signature:
\* the HMAC of the string to sign, whose last line is the hash of the
\* canonical request, whose third line is the canonical query string.)
C29_TokenOnlyAfterSignature ==
  ReturnedFrom("signWebSocketUrl") =>
    LET url == result.value
        Token == args[4].Token
        names == ParameterNames(url)
        signature == Split(Parameters(url)[5], "=")[2]
        stringToSign == signature[1].hex[3]
        canonicalRequest == stringToSign[Len(stringToSign)].hex[2]
        signed == Split(canonicalRequest, "\n")[3]
    IN /\ names = <<Text(<<"X-Amz-Algorithm">>), Text(<<"X-Amz-Credential">>),
                    Text(<<"X-Amz-Date">>), Text(<<"X-Amz-SignedHeaders">>),
                    Text(<<"X-Amz-Signature">>)>>
                    \o (IF Token # <<>> THEN <<Text(<<"X-Amz-Security-Token">>)>>
                                        ELSE <<>>)
       /\ signed = Join(SubSeq(Parameters(url), 1, 4), Text(<<"&">>))
       /\ \A i \in 1..Len(Split(signed, "&")) :
            Split(Split(signed, "&")[i], "=")[1] # Text(<<"X-Amz-Security-Token">>)
       /\ Token # <<>> =>
            Parameters(url)[6] = Text(<<"X-Amz-Security-Token", "=">>)
                                   \o encodeURIComponent(Token)

\* credentials whose key id and token contain separators and parameter
\* names were signed: the token is the last parameter of the URL
C29_Witness ==
  /\ ReturnedFrom("signWebSocketUrl")
  /\ args[4].AccessKeyId = Text(<<"A", "&", "X-Amz-Security-Token", "=", "B">>)
  /\ args[4].Token = Text(<<"t", "&", "X-Amz-Signature", "=", "0">>)
  /\ Len(Parameters(result.value)) = 6
  /\ ParameterNames(result.value)[6] = Text(<<"X-Amz-Security-Token">>)

C32_ConnectedHasOpenTransport ==
  connected => (client # 0 /\ IsOpen(transports, client))

\* C33: whenever the reconnect timer is armed the session is not connected
\* (so its firing cannot tear down a connection that is up).
C33_ReconnectArmedOnlyWhenDisconnected ==
  Armed(timers, "reconnect") # 0 => ~connected

\* C34: after an update that carries a systemState fragment, onoff is true
\* iff the derived status is cleaning or init, and robot_status is the
\* derived status.
C34_OnOffFollowsStatus ==
  [][(IsStateUpdate(last') /\ StateOf(last').systemState.present) =>
       LET sys == StateOf(last').systemState
           current == calculateState(sys.pwsState, sys.robotState)
       IN /\ capabilities'.onoff = Val(current \in {"cleaning", "init"})
          /\ capabilities'.robot_status = Val(current)]_vars

\* the robot was reported initialising: onoff is true although the update
\* fired no cleaning_started
C34_Witness ==
  /\ IsStateUpdate(last)
  /\ StateOf(last).systemState.present
  /\ previousStatus = "init"
  /\ capabilities.robot_status = Val("init")
  /\ capabilities.onoff = Val(TRUE)
  /\ "cleaning_started" \notin TriggersFired(last)

\* while the device is initialised, not being torn down and not connected,
\* a connect sequence that can still make progress is in flight or a timer
\* that starts one (reconnect, credential refresh) is armed
NotStuck ==
  (Live /\ ~connected) =>
    \/ \E k \in InFlight : ~Hung(k)
    \/ Armed(timers, "reconnect") # 0
    \/ Armed(timers, "credentialRefresh") # 0

====
